---- MODULE Spec2Model ----
(***************************************************************************)
(* A model of pfio's fork-aware HTTP cache (pfio/cache/http_cache.py) and  *)
(* of the FS contract and URL factory (pfio/v2/fs.py).                     *)
(*                                                                         *)
(* Five specifications share the module:                                   *)
(*   SpecPool   _ConnectionPool.urlopen, step by step, called by racing    *)
(*              threads of several processes related by fork               *)
(*   SpecCache  HTTPCache.put / HTTPCache.get over HTTPConnector, the      *)
(*              bearer token and the pool, one handler per action          *)
(*   SpecFS     FS._checkfork, FS.subfs and the cwd setter                 *)
(*   SpecUrl    from_url and _from_scheme                                  *)
(*   SpecConnector  _get_connection_pool, step by step, called by the       *)
(*              threads of one process that construct HTTPConnector        *)
(*   SpecConfig _CustomScheme.config and load_config, step by step, called *)
(*              by the threads of one process                              *)
(***************************************************************************)
EXTENDS Integers, Sequences, FiniteSets, TLC

VARIABLES
    \* ---- SpecPool
    procs,      \* the process identifiers of the processes that exist
    mem,        \* mem[p]: the _ConnectionPool object in p's memory
    tpc,        \* tpc[p][t]: where thread t of p stands inside urlopen
    call,       \* call[p][t]: what the call in progress saw and did
    builds,     \* builds[p]: PoolManager constructions done under pid p
    used,       \* the requests sent: who sent it, through which handle
    done,       \* the summaries of the completed urlopen calls
    inherited,  \* inherited[p]: the handle p's memory held when p was created
    racing,     \* racing[p]: a call checked while another was rebuilding
    ncalls,     \* the urlopen calls started so far
    \* ---- SpecCache
    curpid,     \* os.getpid() of the process that runs the cache
    pool,       \* the _ConnectionPool the connector holds (CONNECTION_POOL)
    length,     \* HTTPCache.length
    do_pickle,  \* HTTPCache.do_pickle
    bearer_token_path,     \* HTTPConnector.bearer_token_path
    bearer_token,          \* HTTPConnector.bearer_token
    bearer_token_updated,  \* HTTPConnector.bearer_token_updated
    tokenFile,  \* what the token file holds now, NoFile when it cannot be read
    now,        \* time.time(), in seconds
    store,      \* the HTTP server: store[key] is the body kept under url + key
    lastPut,    \* lastPut[key]: the value of the last put known to be stored
    last,       \* the last HTTPCache call: its arguments and what it did
    \* ---- SpecFS
    fspid,      \* os.getpid() of the process that uses the FS objects
    fss,        \* fss[n]: the n-th FS object created
    fslast,     \* the last FS call: its receiver and what it did
    \* ---- SpecUrl
    configFile, \* the sections of the custom-scheme configuration file
    conf,       \* _CustomScheme.conf once loaded
    conf_loaded,  \* _CustomScheme.conf is not None
    ures,       \* the last from_url call: its arguments and what it did
    \* ---- SpecConnector
    CONNECTION_POOL,  \* the module global: NoPool, or the pool it names
    pools,      \* the _ConnectionPool objects created, in order
    cpc,        \* cpc[t]: where thread t stands in HTTPConnector.__init__
    cargs,      \* cargs[t]: the retries argument of the call of thread t
    connectors, \* the HTTPConnector objects constructed: conn and retries
    \* ---- SpecConfig (with configFile, conf and conf_loaded of SpecUrl)
    lpc,        \* lpc[t]: where thread t stands in _CustomScheme.config
    lscheme,    \* lscheme[t]: the scheme thread t looks up
    nloads,     \* how many times load_config read the configuration file
    seen        \* what the lookups made so far returned, per scheme

poolVars == <<procs, mem, tpc, call, builds, used, done, inherited, racing, ncalls>>

cacheVars == <<curpid, pool, length, do_pickle, bearer_token_path, bearer_token,
               bearer_token_updated, tokenFile, now, store, lastPut, last>>

fsVars == <<fspid, fss, fslast>>

urlVars == <<configFile, conf, conf_loaded, ures>>

connVars == <<CONNECTION_POOL, pools, cpc, cargs, connectors>>

cfgVars == <<lpc, lscheme, nloads, seen>>

vars == <<poolVars, cacheVars, fsVars, urlVars, connVars, cfgVars>>

\* what the actions of one specification leave alone
notPool == <<cacheVars, fsVars, urlVars, connVars, cfgVars>>
notCache == <<poolVars, fsVars, urlVars, connVars, cfgVars>>
notFS == <<poolVars, cacheVars, urlVars, connVars, cfgVars>>
notUrl == <<poolVars, cacheVars, fsVars, connVars, cfgVars>>
notConn == <<poolVars, cacheVars, fsVars, urlVars, cfgVars>>
notCfg == <<poolVars, cacheVars, fsVars, connVars>>

(***************************************************************************)
(* Bounds of the model.                                                    *)
(***************************************************************************)
MaxPid == 3
MaxThreads == 2
MaxCalls == 4
MaxLength == 2
MaxTime == 3
MaxFS == 3
MaxConnectors == 3

Pids == 1 .. MaxPid
Threads == 1 .. MaxThreads

(***************************************************************************)
(* _ConnectionPool (http_cache.py 16-43).  A handle is the PoolManager     *)
(* built at line 38; it remembers the process that built it and the        *)
(* number of that construction.  NoConn and NoPid stand for None.          *)
(***************************************************************************)
NoPid == 0
NoConn == [owner |-> 0, serial |-> 0]

\* __init__: conn and pid start as None
ConnectionPoolInit == [conn |-> NoConn, pid |-> NoPid]

\* __getstate__ / __setstate__: the pickled state keeps pid and drops conn
GetState(cp) == [cp EXCEPT !.conn = NoConn]

\* is_forked: self.pid != os.getpid()
IsForked(cp, cur) == cp.pid # cur

NeedsBuildNoForkCheck(cp, cur) == cp.conn = NoConn

NeedsBuildInverted(cp, cur) == IsForked(cp, cur) \/ cp.conn # NoConn

\* urlopen line 37: self.is_forked or self.conn is None
NeedsBuild(cp, cur) == IsForked(cp, cur) \/ cp.conn = NoConn

\* urlopen lines 38-41: self.conn = PoolManager(...)
BuildConn(cp, h) == [cp EXCEPT !.conn = h]

\* urlopen line 42: self.pid = os.getpid()
RecordPid(cp, cur) == [cp EXCEPT !.pid = cur]

\* urlopen as one call: the pool after it, and the handle the request uses
UrlopenPool(cp, cur, h) ==
    IF NeedsBuild(cp, cur) THEN RecordPid(BuildConn(cp, h), cur) ELSE cp

NoCall == [fresh |-> FALSE, built |-> 0]

PoolInit ==
    /\ procs = {1}
    /\ mem = [p \in Pids |-> ConnectionPoolInit]
    /\ tpc = [p \in Pids |-> [t \in Threads |-> "idle"]]
    /\ call = [p \in Pids |-> [t \in Threads |-> NoCall]]
    /\ builds = [p \in Pids |-> 0]
    /\ used = {}
    /\ done = {}
    /\ inherited = [p \in Pids |-> NoConn]
    /\ racing = [p \in Pids |-> FALSE]
    /\ ncalls = 0

\* line 37: the test at the head of urlopen
UrlopenCheck(p, t) ==
    /\ p \in procs
    /\ tpc[p][t] = "idle"
    /\ ncalls < MaxCalls
    /\ ncalls' = ncalls + 1
    /\ tpc' = [tpc EXCEPT ![p][t] =
                 IF NeedsBuild(mem[p], p) THEN "build" ELSE "send"]
    /\ call' = [call EXCEPT ![p][t] =
                 [fresh |-> mem[p].pid = p /\ mem[p].conn # NoConn, built |-> 0]]
    /\ racing' = [racing EXCEPT ![p] =
                 @ \/ \E o \in Threads \ {t} : tpc[p][o] \in {"build", "setpid"}]
    /\ UNCHANGED <<procs, mem, builds, used, done, inherited>>
    /\ UNCHANGED notPool

\* lines 38-41: a new PoolManager replaces self.conn
UrlopenBuild(p, t) ==
    /\ p \in procs
    /\ tpc[p][t] = "build"
    /\ builds' = [builds EXCEPT ![p] = @ + 1]
    /\ mem' = [mem EXCEPT ![p] =
                 BuildConn(@, [owner |-> p, serial |-> builds[p] + 1])]
    /\ call' = [call EXCEPT ![p][t].built = @ + 1]
    /\ tpc' = [tpc EXCEPT ![p][t] = "setpid"]
    /\ UNCHANGED <<procs, used, done, inherited, racing, ncalls>>
    /\ UNCHANGED notPool

\* line 42: the pool records the process that rebuilt it
UrlopenSetPid(p, t) ==
    /\ p \in procs
    /\ tpc[p][t] = "setpid"
    /\ mem' = [mem EXCEPT ![p] = RecordPid(@, p)]
    /\ tpc' = [tpc EXCEPT ![p][t] = "send"]
    /\ UNCHANGED <<procs, call, builds, used, done, inherited, racing, ncalls>>
    /\ UNCHANGED notPool

\* line 43: the request goes through whatever self.conn holds now
UrlopenSend(p, t) ==
    /\ p \in procs
    /\ tpc[p][t] = "send"
    /\ used' = used \cup {[by |-> p, handle |-> mem[p].conn]}
    /\ done' = done \cup {[by |-> p, fresh |-> call[p][t].fresh,
                           built |-> call[p][t].built]}
    /\ tpc' = [tpc EXCEPT ![p][t] = "idle"]
    /\ call' = [call EXCEPT ![p][t] = NoCall]
    /\ UNCHANGED <<procs, mem, builds, inherited, racing, ncalls>>
    /\ UNCHANGED notPool

\* os.fork() by a thread of p that is not inside urlopen: the child gets a
\* copy of p's memory, a new process identifier and only the forking thread
Fork(p) ==
    /\ p \in procs
    /\ \E t \in Threads : tpc[p][t] = "idle"
    /\ Cardinality(procs) < MaxPid
    /\ LET q == Cardinality(procs) + 1 IN
         /\ procs' = procs \cup {q}
         /\ mem' = [mem EXCEPT ![q] = mem[p]]
         /\ inherited' = [inherited EXCEPT ![q] = mem[p].conn]
    /\ UNCHANGED <<tpc, call, builds, used, done, racing, ncalls>>
    /\ UNCHANGED notPool

\* a spawned worker receives the pool pickled: __getstate__ then __setstate__
Spawn(p) ==
    /\ p \in procs
    /\ \E t \in Threads : tpc[p][t] = "idle"
    /\ Cardinality(procs) < MaxPid
    /\ LET q == Cardinality(procs) + 1 IN
         /\ procs' = procs \cup {q}
         /\ mem' = [mem EXCEPT ![q] = GetState(mem[p])]
    /\ UNCHANGED <<tpc, call, builds, used, done, inherited, racing, ncalls>>
    /\ UNCHANGED notPool

PoolNext ==
    \/ \E p \in Pids, t \in Threads : UrlopenCheck(p, t)
    \/ \E p \in Pids, t \in Threads : UrlopenBuild(p, t)
    \/ \E p \in Pids, t \in Threads : UrlopenSetPid(p, t)
    \/ \E p \in Pids, t \in Threads : UrlopenSend(p, t)
    \/ \E p \in Pids : Fork(p)
    \/ \E p \in Pids : Spawn(p)


(***************************************************************************)
(* HTTPConnector and HTTPCache (http_cache.py 56-205).                     *)
(*                                                                         *)
(* Bytes are sequences of numbers 0..255.  Absent stands for None where    *)
(* bytes are expected.  The server and the token file are the environment. *)
(***************************************************************************)
Absent == <<-1>>
Values == {<<>>, <<7>>}

\* pickle.dumps: an opaque encoder; a pickle starts with the PROTO opcode
\* (0x80) and ends with the STOP opcode ('.')
Dumps(v) == <<128>> \o v \o <<46>>

ValidPickle(b) == Len(b) >= 2 /\ b[1] = 128 /\ b[Len(b)] = 46

\* pickle.loads of a well-formed pickle
Loads(b) == SubSeq(b, 2, Len(b) - 1)

Tokens == {"tokA", "tokB"}
NoFile == "ENOENT"
NoPath == "None"
TokenPath == "/token"
NoToken == "unset"
NoHeader == "{}"

\* str(i), the decimal form of an index, as a sequence of digits
RECURSIVE Digits(_)
Digits(n) == IF n < 10 THEN <<n>> ELSE Digits(n \div 10) \o <<n % 10>>

\* HTTPCache.put / get: the url suffix str(i)
Key(i) == Digits(i)

Keys == {Digits(i) : i \in 0 .. MaxLength - 1}

RangeCheckOffByOne(i, len) == i < 0 \/ len < i

\* HTTPCache.put / get lines 187, 196: i < 0 or self.length <= i
OutOfRange(i, len) == i < 0 \/ len <= i

EncodeValueSkipped(flag, v) == v

\* HTTPCache.put lines 190-191: pickle when do_pickle
EncodeValue(flag, v) == IF flag THEN Dumps(v) ELSE v

ShouldDecodeTruthy(flag, data) == flag /\ data # Absent /\ data # <<>>

\* HTTPCache.get line 202: self.do_pickle and data is not None
ShouldDecode(flag, data) == flag /\ data # Absent

\* the bearer token is re-read when more than this many seconds have passed
TokenRefreshInterval == 1

RefreshDueInclusive(t, updated) == t - updated >= TokenRefreshInterval

\* _header_with_token line 116: time.time() - self.bearer_token_updated > 1
RefreshDue(t, updated) == t - updated > TokenRefreshInterval

\* _header_with_token with _token_read_now: the header, the token state
\* after it, and whether open() of the token file raised
HeaderWithToken(path, token, updated, file, t) ==
    IF path = NoPath
    THEN [raised |-> FALSE, refreshed |-> FALSE, header |-> NoHeader,
          token |-> token, updated |-> updated]
    ELSE IF RefreshDue(t, updated)
         THEN IF file = NoFile
              THEN [raised |-> TRUE, refreshed |-> FALSE, header |-> NoHeader,
                    token |-> token, updated |-> updated]
              ELSE [raised |-> FALSE, refreshed |-> TRUE, header |-> file,
                    token |-> file, updated |-> t]
         ELSE [raised |-> FALSE, refreshed |-> FALSE, header |-> token,
               token |-> token, updated |-> updated]

PutResultAnySuccess(resp) == ~resp.raised /\ resp.status \in {200, 201, 204}

\* HTTPConnector.put lines 85-93: False on RequestError, else status == 201
PutResult(resp) == ~resp.raised /\ resp.status = 201

GetResultUnlessMissing(resp) ==
    IF ~resp.raised /\ resp.status # 404 THEN resp.body ELSE Absent

\* HTTPConnector.get lines 100-110: the body on 200, None otherwise
GetResult(resp) ==
    IF ~resp.raised /\ resp.status = 200 THEN resp.body ELSE Absent

\* The answers of the server to a PUT: created, overwritten, refused, or no
\* answer at all (urllib3 gives up and raises a RequestError)
PutResponses ==
    {[raised |-> FALSE, status |-> st, body |-> <<>>] : st \in {201, 204, 500}}
    \cup {[raised |-> TRUE, status |-> 0, body |-> <<>>]}

\* The answers of the server to a GET of a key holding b
GetResponses(b) ==
    (IF b = Absent
     THEN {[raised |-> FALSE, status |-> 404, body |-> <<7>>]}
     ELSE {[raised |-> FALSE, status |-> 200, body |-> b]})
    \cup {[raised |-> FALSE, status |-> 500, body |-> <<7>>],
          [raised |-> TRUE, status |-> 0, body |-> <<>>]}

NoResp == [raised |-> FALSE, status |-> 0, body |-> <<>>]
NothingPut == [known |-> FALSE, v |-> <<>>, after |-> FALSE]

\* `last` holds a call's arguments and outcome from the moment the handler
\* ends until the caller takes the result (Return)
NoLast ==
    [op |-> "none", i |-> 0, outcome |-> "ok", sent |-> FALSE,
     resp |-> NoResp, ok |-> FALSE, data |-> Absent, ret |-> Absent,
     header |-> NoHeader]

Idle == last.op = "none"

\* HTTPCache.__init__ with HTTPConnector.__init__: the token is read once
\* when a path is configured; the pool is the process-wide one, not yet built
CacheInit ==
    /\ curpid = 1
    /\ pool = ConnectionPoolInit
    /\ length = MaxLength
    /\ do_pickle \in BOOLEAN
    /\ bearer_token_path \in {NoPath, TokenPath}
    /\ tokenFile \in Tokens
    /\ now = 0
    /\ bearer_token = IF bearer_token_path = NoPath THEN NoToken ELSE tokenFile
    /\ bearer_token_updated = 0
    /\ store = [k \in Keys |-> Absent]
    /\ lastPut = [k \in Keys |-> NothingPut]
    /\ last = NoLast

\* a call that raised before any request: only `last` remembers it
Raised(op, i, exc) ==
    /\ last' = [NoLast EXCEPT !.op = op, !.i = i, !.outcome = exc]
    /\ UNCHANGED <<curpid, pool, length, do_pickle, bearer_token_path,
                   bearer_token, bearer_token_updated, tokenFile, now, store,
                   lastPut>>

\* HTTPCache.put(i, v), lines 186-193 with HTTPConnector.put, lines 79-93.
\* The arguments of urlopen are evaluated first, so the header is built
\* (and the token file read) before the pool is touched.
CachePut(i, v, resp, landed) ==
    IF OutOfRange(i, length)
    THEN Raised("put", i, "IndexError")
    ELSE LET data == EncodeValue(do_pickle, v)
             hdr == HeaderWithToken(bearer_token_path, bearer_token,
                                    bearer_token_updated, tokenFile, now)
             k == Key(i)
             stored == PutResult(resp) \/ landed
         IN IF hdr.raised
            THEN Raised("put", i, "OSError")
            ELSE /\ bearer_token' = hdr.token
                 /\ bearer_token_updated' = hdr.updated
                 /\ pool' = UrlopenPool(pool, curpid,
                                        [owner |-> curpid, serial |-> 1])
                 /\ store' = IF stored THEN [store EXCEPT ![k] = data] ELSE store
                 /\ lastPut' =
                      [x \in Keys |->
                         IF x = k
                         THEN IF PutResult(resp)
                              THEN [known |-> TRUE, v |-> v, after |-> FALSE]
                              ELSE NothingPut
                         ELSE IF stored /\ lastPut[x].known
                              THEN [lastPut[x] EXCEPT !.after = TRUE]
                              ELSE lastPut[x]]
                 /\ last' = [NoLast EXCEPT
                               !.op = "put", !.i = i, !.sent = TRUE,
                               !.resp = resp, !.ok = PutResult(resp),
                               !.header = hdr.header]
                 /\ UNCHANGED <<curpid, length, do_pickle, bearer_token_path,
                                tokenFile, now>>

\* HTTPCache.get(i), lines 195-205 with HTTPConnector.get, lines 95-110
CacheGet(i, resp) ==
    IF OutOfRange(i, length)
    THEN Raised("get", i, "IndexError")
    ELSE LET hdr == HeaderWithToken(bearer_token_path, bearer_token,
                                    bearer_token_updated, tokenFile, now)
             data == GetResult(resp)
             decode == ShouldDecode(do_pickle, data)
             \* pickle.loads: the object, or the error it raises
             outcome == IF ~decode THEN "ok"
                        ELSE IF data = Absent THEN "TypeError"
                        ELSE IF ~ValidPickle(data) THEN "UnpicklingError"
                        ELSE "ok"
         IN IF hdr.raised
            THEN Raised("get", i, "OSError")
            ELSE /\ bearer_token' = hdr.token
                 /\ bearer_token_updated' = hdr.updated
                 /\ pool' = UrlopenPool(pool, curpid,
                                        [owner |-> curpid, serial |-> 1])
                 /\ last' = [NoLast EXCEPT
                               !.op = "get", !.i = i, !.sent = TRUE,
                               !.resp = resp, !.data = data,
                               !.outcome = outcome,
                               !.ret = IF ~decode THEN data
                                       ELSE IF outcome = "ok" THEN Loads(data)
                                       ELSE Absent,
                               !.header = hdr.header]
                 /\ UNCHANGED <<curpid, length, do_pickle, bearer_token_path,
                                tokenFile, now, store, lastPut>>

Indices == -1 .. MaxLength

\* the body the server holds under a key
StoreAt(k) == IF k \in DOMAIN store THEN store[k] ELSE Absent

\* the caller takes the result of the call
Return ==
    /\ ~Idle
    /\ last' = NoLast
    /\ UNCHANGED <<curpid, pool, length, do_pickle, bearer_token_path,
                   bearer_token, bearer_token_updated, tokenFile, now, store,
                   lastPut>>
    /\ UNCHANGED notCache

Put ==
    /\ Idle
    /\ \E i \in Indices, v \in Values, resp \in PutResponses, landed \in BOOLEAN :
         CachePut(i, v, resp, landed)
    /\ UNCHANGED notCache

Get ==
    /\ Idle
    /\ \E i \in Indices :
         \E resp \in GetResponses(IF i < 0 THEN Absent ELSE StoreAt(Key(i))) :
            CacheGet(i, resp)
    /\ UNCHANGED notCache

\* time passes
Tick ==
    /\ Idle
    /\ now < MaxTime
    /\ now' = now + 1
    /\ UNCHANGED <<curpid, pool, length, do_pickle, bearer_token_path,
                   bearer_token, bearer_token_updated, tokenFile, store,
                   lastPut, last>>
    /\ UNCHANGED notCache

\* the token file is rewritten, or removed
WriteTokenFile ==
    /\ Idle
    /\ bearer_token_path # NoPath
    /\ \E c \in Tokens \cup {NoFile} : c # tokenFile /\ tokenFile' = c
    /\ UNCHANGED <<curpid, pool, length, do_pickle, bearer_token_path,
                   bearer_token, bearer_token_updated, now, store, lastPut,
                   last>>
    /\ UNCHANGED notCache

\* the process forks and the model follows the child: os.getpid() changes,
\* the memory (the pool with its handle) is the parent's
ForkCache ==
    /\ Idle
    /\ curpid < MaxPid
    /\ curpid' = curpid + 1
    /\ UNCHANGED <<pool, length, do_pickle, bearer_token_path, bearer_token,
                   bearer_token_updated, tokenFile, now, store, lastPut, last>>
    /\ UNCHANGED notCache

\* another client of the same url (a cache with another encode flag, say)
\* writes an entry, not pickled
OtherClientPut ==
    /\ Idle
    /\ \E k \in Keys, b \in Values :
         /\ store[k] # b
         /\ store' = [store EXCEPT ![k] = b]
         /\ lastPut' = [lastPut EXCEPT ![k] = NothingPut]
    /\ UNCHANGED <<curpid, pool, length, do_pickle, bearer_token_path,
                   bearer_token, bearer_token_updated, tokenFile, now, last>>
    /\ UNCHANGED notCache

CacheNext ==
    \/ Put
    \/ Get
    \/ Tick
    \/ WriteTokenFile
    \/ ForkCache
    \/ OtherClientPut
    \/ Return


(***************************************************************************)
(* Paths and strings are sequences of one-character strings.               *)
(***************************************************************************)
StartsWith(str, pre) ==
    Len(str) >= Len(pre) /\ SubSeq(str, 1, Len(pre)) = pre

EndsWith(str, suf) ==
    Len(str) >= Len(suf) /\ SubSeq(str, Len(str) - Len(suf) + 1, Len(str)) = suf

\* str.find(c): the first position of c, 0 when there is none
Find(str, c) ==
    IF \E n \in 1 .. Len(str) : str[n] = c
    THEN CHOOSE n \in 1 .. Len(str) :
             str[n] = c /\ \A m \in 1 .. n - 1 : str[m] # c
    ELSE 0

\* str.rfind(c): the last position of c, 0 when there is none
RFind(str, c) ==
    IF \E n \in 1 .. Len(str) : str[n] = c
    THEN CHOOSE n \in 1 .. Len(str) :
             str[n] = c /\ \A m \in n + 1 .. Len(str) : str[m] # c
    ELSE 0

\* str.split(sep): the pieces between the separators
RECURSIVE Split(_, _)
Split(str, sep) ==
    IF Find(str, sep) = 0
    THEN <<str>>
    ELSE <<SubSeq(str, 1, Find(str, sep) - 1)>>
         \o Split(SubSeq(str, Find(str, sep) + 1, Len(str)), sep)

\* os.path.join(a, b)
PathJoin(a, b) ==
    IF StartsWith(b, <<"/">>) THEN b
    ELSE IF a = <<>> \/ EndsWith(a, <<"/">>) THEN a \o b
    ELSE a \o <<"/">> \o b

(***************************************************************************)
(* FS (fs.py 84-155).  An FS object has the process identifier captured by *)
(* __init__ and a working directory.  resets counts the runs of the reset  *)
(* hook on the object; unsafe tells a backend whose reset hook raises      *)
(* ForkedError in a forked process.  base and rel remember, for an object  *)
(* made by subfs whose working directory was not assigned since, the       *)
(* receiver's working directory and the argument of that call.             *)
(***************************************************************************)
NoFS ==
    [live |-> FALSE, pid |-> 0, cwd |-> <<>>, resets |-> 0, unsafe |-> FALSE,
     base |-> <<>>, rel |-> <<"None">>]

\* the arguments given to subfs
RelPaths ==
    {<<"a">>, <<".", ".">>, <<"/", "a">>, <<"a", "/", ".", ".">>,
     <<".", ".", "a">>}

\* the values assigned to cwd
CwdValues == {<<"b">>, <<".", ".">>}

\* is_forked: self.pid != os.getpid()
FSIsForked(fs, cur) == fs.pid # cur

\* _reset of a concrete backend: abstract in fs.py
ResetRaises(fs, cur) == fs.unsafe /\ FSIsForked(fs, cur)

Reset(fs) == [fs EXCEPT !.resets = @ + 1]

CheckForkKeepsPid(fs, cur) ==
    IF ~FSIsForked(fs, cur) THEN [fs |-> fs, outcome |-> "ok"]
    ELSE IF ResetRaises(fs, cur) THEN [fs |-> fs, outcome |-> "ForkedError"]
    ELSE [fs |-> Reset(fs), outcome |-> "ok"]

CheckForkAdoptsPidOnFailure(fs, cur) ==
    IF ~FSIsForked(fs, cur) THEN [fs |-> fs, outcome |-> "ok"]
    ELSE IF ResetRaises(fs, cur)
    THEN [fs |-> [fs EXCEPT !.pid = cur], outcome |-> "ForkedError"]
    ELSE [fs |-> [Reset(fs) EXCEPT !.pid = cur], outcome |-> "ok"]

\* _checkfork, lines 140-146: nothing when not forked; else the reset hook,
\* then self.pid = os.getpid() (not reached when the hook raises)
CheckFork(fs, cur) ==
    IF ~FSIsForked(fs, cur) THEN [fs |-> fs, outcome |-> "ok"]
    ELSE IF ResetRaises(fs, cur) THEN [fs |-> fs, outcome |-> "ForkedError"]
    ELSE [fs |-> [Reset(fs) EXCEPT !.pid = cur], outcome |-> "ok"]

SubfsRefusesLeadingOnly(rel_path) ==
    \/ StartsWith(rel_path, <<"/">>)
    \/ Split(rel_path, "/")[1] = <<".", ".">>

SubfsRefusesAbsoluteOnly(rel_path) == StartsWith(rel_path, <<"/">>)

\* subfs lines 127-130: the two refusals
SubfsRefuses(rel_path) ==
    \/ StartsWith(rel_path, <<"/">>)
    \/ \E n \in 1 .. Len(Split(rel_path, "/")) : Split(rel_path, "/")[n] = <<".", ".">>

NewFSWithoutReset(fs, path, cur) ==
    [fs |-> [fs EXCEPT !.cwd = path], outcome |-> "ok"]

\* _newfs, lines 134-138: a shallow copy with the new working directory, on
\* which the reset hook runs
NewFS(fs, path, cur) ==
    IF ResetRaises(fs, cur)
    THEN [fs |-> NoFS, outcome |-> "ForkedError"]
    ELSE [fs |-> Reset([fs EXCEPT !.cwd = path]), outcome |-> "ok"]

NoFSLast == [op |-> "none", fs |-> 0, new |-> 0, arg |-> <<>>, outcome |-> "ok"]

FSIdle == fslast.op = "none"

FSIndex == 1 .. MaxFS

\* FS.__init__, lines 91-92, with the class attribute _cwd = ''
FSInit ==
    /\ fspid = 1
    /\ \E u \in BOOLEAN :
         fss = [n \in FSIndex |->
                  IF n = 1
                  THEN [NoFS EXCEPT !.live = TRUE, !.pid = 1, !.unsafe = u]
                  ELSE NoFS]
    /\ fslast = NoFSLast

FSParked ==
    /\ fspid = 1
    /\ fss = [n \in FSIndex |-> NoFS]
    /\ fslast = NoFSLast

\* an operation of a concrete backend (open, list, stat, ...): the fork
\* check first, then the operation itself
FSOp(f) ==
    /\ FSIdle
    /\ fss[f].live
    /\ LET r == CheckFork(fss[f], fspid) IN
         /\ fss' = [fss EXCEPT ![f] = r.fs]
         /\ fslast' = [NoFSLast EXCEPT !.op = "op", !.fs = f, !.outcome = r.outcome]
    /\ UNCHANGED fspid
    /\ UNCHANGED notFS

\* FS.subfs(rel_path), lines 118-138
Subfs(f, rel_path) ==
    /\ FSIdle
    /\ fss[f].live
    /\ IF SubfsRefuses(rel_path)
       THEN /\ fss' = fss
            /\ fslast' = [NoFSLast EXCEPT !.op = "subfs", !.fs = f,
                            !.arg = rel_path, !.outcome = "RuntimeError"]
       ELSE \E n \in FSIndex :
              /\ ~fss[n].live
              /\ \A m \in FSIndex : ~fss[m].live => n <= m
              /\ LET r == NewFS(fss[f], PathJoin(fss[f].cwd, rel_path), fspid) IN
                   /\ fss' = IF r.outcome = "ok"
                             THEN [fss EXCEPT ![n] =
                                     [r.fs EXCEPT !.base = fss[f].cwd,
                                                  !.rel = rel_path]]
                             ELSE fss
                   /\ fslast' = [NoFSLast EXCEPT
                                   !.op = "subfs", !.fs = f, !.arg = rel_path,
                                   !.new = IF r.outcome = "ok" THEN n ELSE 0,
                                   !.outcome = r.outcome]
    /\ UNCHANGED fspid
    /\ UNCHANGED notFS

\* the cwd setter, lines 98-100
SetCwd(f, value) ==
    /\ FSIdle
    /\ fss[f].live
    /\ fss' = [fss EXCEPT ![f].cwd = value, ![f].base = <<>>,
                           ![f].rel = <<"None">>]
    /\ fslast' = [NoFSLast EXCEPT !.op = "setcwd", !.fs = f, !.arg = value]
    /\ UNCHANGED fspid
    /\ UNCHANGED notFS

\* the process forks and the model follows the child
ForkFS ==
    /\ FSIdle
    /\ fspid < MaxPid
    /\ fspid' = fspid + 1
    /\ UNCHANGED <<fss, fslast>>
    /\ UNCHANGED notFS

\* the caller takes the result of the call
FSReturn ==
    /\ ~FSIdle
    /\ fslast' = NoFSLast
    /\ UNCHANGED <<fspid, fss>>
    /\ UNCHANGED notFS

FSNext ==
    \/ \E f \in FSIndex : FSOp(f)
    \/ \E f \in FSIndex, r \in RelPaths : Subfs(f, r)
    \/ \E f \in FSIndex, r \in CwdValues : SetCwd(f, r)
    \/ ForkFS
    \/ FSReturn

(***************************************************************************)
(* from_url and _from_scheme (fs.py 325-467).  Schemes, paths and          *)
(* force_type are strings (sequences of characters); NoneValue is None.    *)
(* Keyword arguments are sets of <<name, value>> pairs.                    *)
(***************************************************************************)
NoneValue == <<"None">>
FILE == <<"f", "i", "l", "e">>
HDFS == <<"h", "d", "f", "s">>
S3 == <<"s", "3">>
ZIP == <<"z", "i", "p">>
DOTZIP == <<".", "z", "i", "p">>
CS == <<"c", "s">>
CX == <<"c", "x">>
CY == <<"c", "y">>

Letters == {"a", "b", "c", "d", "f", "h", "i", "l", "p", "s", "t", "x", "y", "z", "S"}
SchemeChars == Letters \cup {"3", "+", "-", "."}

\* str.lower, on the characters used
LowerChar(c) == IF c = "S" THEN "s" ELSE c

Lower(str) == [n \in 1 .. Len(str) |-> LowerChar(str[n])]

\* the urls given to from_url
Urls ==
    {<<"s", "3", ":", "/", "/", "b", "/", "p">>,
     <<"/", "t", "/", "a", ".", "z", "i", "p">>,
     <<"S", "3", ":", "/", "/", "b", "/", "a", ".", "z", "i", "p">>,
     <<"c", "s", ":", "/", "/", "h", "/", "p">>,
     <<"c", "x", ":", "/", "/", "h", "/", "p">>,
     <<"c", "y", ":", "/", "/", "h", "/", "a", ".", "z", "i", "p">>,
     <<"h", "d", "f", "s", ":", "/", "/", "/", "d">>,
     <<"3", "s", ":", "/", "/", "b", "/", "p">>,
     <<"f", "i", "l", "e", ":", "/", "t", "/", "z", "i", "p", "?", "a", ".", "z", "i", "p">>}

\* the least position from `from` on that holds one of the characters, or
\* Len(str) + 1
FirstOf(str, chars, from) ==
    IF \E n \in from .. Len(str) : str[n] \in chars
    THEN CHOOSE n \in from .. Len(str) :
             str[n] \in chars /\ \A m \in from .. n - 1 : str[m] \notin chars
    ELSE Len(str) + 1

\* urllib.parse.urlparse, as from_url uses it (line 362): scheme, netloc, path
UrlParse(url) ==
    LET colon == Find(url, ":")
        hasScheme ==
            /\ colon > 1
            /\ url[1] \in Letters
            /\ \A n \in 1 .. colon - 1 : url[n] \in SchemeChars
        scheme == IF hasScheme THEN Lower(SubSeq(url, 1, colon - 1)) ELSE <<>>
        rest == IF hasScheme THEN SubSeq(url, colon + 1, Len(url)) ELSE url
        hasNetloc == StartsWith(rest, <<"/", "/">>)
        delim == FirstOf(rest, {"/", "?", "#"}, 3)
        netloc == IF hasNetloc THEN SubSeq(rest, 3, delim - 1) ELSE <<>>
        tail == IF hasNetloc THEN SubSeq(rest, delim, Len(rest)) ELSE rest
        path == SubSeq(tail, 1, FirstOf(tail, {"?", "#"}, 1) - 1)
    IN [scheme |-> scheme, netloc |-> netloc, path |-> path]

\* from_url lines 363-366: the default is local
SchemeOrDefault(parsed) == IF parsed.scheme # <<>> THEN parsed.scheme ELSE FILE

SchemeMismatchNoZipExemption(force_type, scheme) ==
    force_type # NoneValue /\ force_type # scheme

\* from_url lines 370-372
SchemeMismatch(force_type, scheme) ==
    force_type # NoneValue /\ force_type # ZIP /\ force_type # scheme

\* str.rstrip("/")
RECURSIVE RStripSlash(_)
RStripSlash(str) ==
    IF EndsWith(str, <<"/">>) THEN RStripSlash(SubSeq(str, 1, Len(str) - 1)) ELSE str

\* os.path.split(p)
PathSplit(path) ==
    LET cut == RFind(path, "/")
        head == SubSeq(path, 1, cut)
        tail == SubSeq(path, cut + 1, Len(path))
    IN [head |-> IF \A n \in 1 .. Len(head) : head[n] = "/"
                 THEN head ELSE RStripSlash(head),
        tail |-> tail]

\* dict operations on sets of <<name, value>> pairs
Names(kw) == {pair[1] : pair \in kw}

Lookup(kw, name) == (CHOOSE pair \in kw : pair[1] = name)[2]

CreateRequestedKeyPresent(kw) == "create" \in Names(kw)

\* kwargs.get('create', False), taken as a condition
CreateRequested(kw) == "create" \in Names(kw) /\ Lookup(kw, "create") # "False"

MergeOverwriting(kw, defaults) ==
    {pair \in kw : pair[1] \notin Names(defaults)} \cup defaults

\* _from_scheme lines 450-453: a default enters only under a name the
\* caller did not give
MergeDefaults(kw, defaults) ==
    kw \cup {pair \in defaults : pair[1] \notin Names(kw)}

KnownSchemeWithCustom == {FILE, HDFS, S3, CS}

\* _from_scheme line 439
known_scheme == {FILE, HDFS, S3}

\* the keyword arguments given by the caller, force_type apart
KwSamples ==
    {{}, {<<"create", "True">>}, {<<"create", "False">>},
     {<<"bucket", "b-call">>}, {<<"endpoint", "e-call">>}}

ForceTypes == {NoneValue, ZIP, FILE, S3, CS}

\* a section of the configuration file: its name and its keys with their
\* values, the "scheme" key among them
Section(name, dict) == [name |-> name, dict |-> dict]

ConfigFiles ==
    {{},
     {Section(CS, {<<"scheme", "s3">>, <<"endpoint", "e-conf">>}),
      Section(CX, {<<"scheme", "cs">>})},
     {Section(CS, {<<"scheme", "s3">>, <<"bucket", "b-conf">>}),
      Section(CY, {<<"scheme", "file">>, <<"create", "True">>}),
      Section(CX, {<<"endpoint", "e-conf">>})}}

\* the value of a "scheme" key as the string of characters it is
SchemeText == {<<"file", FILE>>, <<"hdfs", HDFS>>, <<"s3", S3>>, <<"cs", CS>>}

Chars(text) == (CHOOSE pair \in SchemeText : pair[1] = text)[2]

\* _CustomScheme.config, lines 423-428, on a loaded configuration: a copy of
\* the section as a dict, or None
ConfigOf(cf, scheme) ==
    IF \E sec \in cf : sec.name = scheme
    THEN CHOOSE sec \in cf : sec.name = scheme
    ELSE Section(NoneValue, {})

\* dict.pop(name), on a dict that has the key: what is left of the dict
Pop(dict, name) == {pair \in dict : pair[1] # name}

NoBackend ==
    [outcome |-> "ok", why |-> "", backend |-> NoneValue, dirname |-> <<>>,
     bucket |-> <<>>, opts |-> {}, looked |-> FALSE]

\* _from_scheme lines 455-465: the constructor call.  S3 gets bucket and
\* prefix by keyword, so a kwargs that names one of them is a TypeError
Construct(scheme, dirname, kw, bucket, looked) ==
    IF scheme \notin {FILE, HDFS, S3}
    THEN [NoBackend EXCEPT !.outcome = "RuntimeError", !.why = "bug",
                           !.looked = looked]
    ELSE IF scheme = S3 /\ Names(kw) \cap {"bucket", "prefix"} # {}
    THEN [NoBackend EXCEPT !.outcome = "TypeError", !.why = "dupkw",
                           !.looked = looked]
    ELSE [NoBackend EXCEPT !.backend = scheme, !.dirname = dirname,
                           !.bucket = IF scheme = S3 THEN bucket ELSE <<>>,
                           !.opts = kw, !.looked = looked]

\* _from_scheme, lines 438-467, on the configuration cf that
\* _CustomScheme.config sees
FromScheme(scheme, dirname, kw, bucket, cf) ==
    IF scheme \in known_scheme
    THEN Construct(scheme, dirname, kw, bucket, FALSE)
    ELSE LET sec == ConfigOf(cf, scheme) IN
         IF sec.name = NoneValue
         THEN Construct(scheme, dirname, kw, bucket, TRUE)
         ELSE IF "scheme" \notin Names(sec.dict)
         THEN [NoBackend EXCEPT !.outcome = "KeyError", !.why = "noscheme",
                                !.looked = TRUE]
         ELSE IF Chars(Lookup(sec.dict, "scheme")) \notin known_scheme
         THEN [NoBackend EXCEPT !.outcome = "ValueError", !.why = "unsupported",
                                !.looked = TRUE]
         ELSE Construct(Chars(Lookup(sec.dict, "scheme")), dirname,
                        MergeDefaults(kw, Pop(sec.dict, "scheme")),
                        bucket, TRUE)

NoUres ==
    [op |-> "none", url |-> <<>>, force_type |-> NoneValue, kw |-> {},
     outcome |-> "ok", why |-> "", backend |-> NoneValue, dirname |-> <<>>,
     bucket |-> <<>>, opts |-> {}, looked |-> FALSE, zip |-> NoneValue]

UrlIdle == ures.op = "none"

ArchiveWrappedBySuffixAlone(force_type, path) ==
    force_type = ZIP \/ EndsWith(path, DOTZIP)

\* from_url lines 384-402, the table of force_type against suffix: the zip
\* branches are taken for "zip", and for None on a path ending with ".zip"
ArchiveWrapped(force_type, path) ==
    \/ force_type = ZIP
    \/ force_type = NoneValue /\ EndsWith(path, DOTZIP)

\* fs.open_zip(filename, **kwargs), lines 112-115: it returns the archive FS
\* or raises what opening the archive raises
OpenZipOutcomes == {"ok", "raised"}

\* from_url(url, force_type=..., **kw), lines 325-404; opened is the outcome
\* of open_zip when it is called
FromUrl(url, force_type, kw, opened) ==
    LET parsed == UrlParse(url)
        scheme == SchemeOrDefault(parsed)
        req == [NoUres EXCEPT !.op = "from_url", !.url = url,
                               !.force_type = force_type, !.kw = kw]
        aszip == ArchiveWrapped(force_type, parsed.path)
        dirname == IF aszip THEN PathSplit(parsed.path).head ELSE parsed.path
        filename == PathSplit(parsed.path).tail
        loads == scheme \notin known_scheme /\ ~conf_loaded
        cf == IF conf_loaded THEN conf ELSE configFile
        r == FromScheme(scheme, dirname, kw, parsed.netloc, cf)
    IN IF SchemeMismatch(force_type, scheme)
       THEN /\ ures' = [req EXCEPT !.outcome = "ValueError", !.why = "mismatch"]
            /\ UNCHANGED <<configFile, conf, conf_loaded>>
       ELSE IF aszip /\ CreateRequested(kw)
       THEN /\ ures' = [req EXCEPT !.outcome = "ValueError", !.why = "create"]
            /\ UNCHANGED <<configFile, conf, conf_loaded>>
       ELSE /\ conf' = IF loads THEN configFile ELSE conf
            /\ conf_loaded' = (conf_loaded \/ loads)
            /\ ures' = IF aszip /\ r.outcome = "ok" /\ opened = "raised"
                       THEN [req EXCEPT
                               !.outcome = "raised", !.why = "open_zip",
                               !.backend = r.backend, !.dirname = r.dirname,
                               !.bucket = r.bucket, !.opts = r.opts,
                               !.looked = r.looked]
                       ELSE [req EXCEPT
                               !.outcome = r.outcome, !.why = r.why,
                               !.backend = r.backend, !.dirname = r.dirname,
                               !.bucket = r.bucket, !.opts = r.opts,
                               !.looked = r.looked,
                               !.zip = IF aszip /\ r.outcome = "ok"
                                       THEN filename ELSE NoneValue]
            /\ UNCHANGED configFile

\* the configuration file as _default_config_file finds it; nothing is
\* loaded before the first lookup (conf = None, line 420)
UrlInit ==
    /\ configFile \in ConfigFiles
    /\ conf = {}
    /\ conf_loaded = FALSE
    /\ ures = NoUres

UrlParked ==
    /\ configFile = {}
    /\ conf = {}
    /\ conf_loaded = FALSE
    /\ ures = NoUres

Resolve ==
    /\ UrlIdle
    /\ \E url \in Urls, force_type \in ForceTypes, kw \in KwSamples,
          opened \in OpenZipOutcomes :
         FromUrl(url, force_type, kw, opened)
    /\ UNCHANGED notUrl

\* the configuration file is rewritten
WriteConfigFile ==
    /\ UrlIdle
    /\ \E cf \in ConfigFiles : cf # configFile /\ configFile' = cf
    /\ UNCHANGED <<conf, conf_loaded, ures>>
    /\ UNCHANGED notUrl

\* the caller takes the result of the call
UrlReturn ==
    /\ ~UrlIdle
    /\ ures' = NoUres
    /\ UNCHANGED <<configFile, conf, conf_loaded>>
    /\ UNCHANGED notUrl

UrlNext ==
    \/ Resolve
    \/ WriteConfigFile
    \/ UrlReturn

(***************************************************************************)
(* _get_connection_pool and HTTPConnector.__init__ (http_cache.py 46-77),  *)
(* called by the threads of one process.  The test of the global, the      *)
(* assignment to it and the read that returns it are separate steps of a   *)
(* thread: no lock is held over them.                                      *)
(***************************************************************************)
NoPool == 0

\* the retries arguments given to HTTPConnector
RetryValues == {1, 2}

\* CONNECTION_POOL = None at import, line 46
ConnectorInit ==
    /\ CONNECTION_POOL = NoPool
    /\ pools = <<>>
    /\ cpc = [t \in Threads |-> "idle"]
    /\ cargs = [t \in Threads |-> 1]
    /\ connectors = <<>>

ConnParked == ConnectorInit

\* the calls under way
Constructing == {t \in Threads : cpc[t] # "idle"}

\* HTTPConnector.__init__ up to the call of line 77
NewConnector(t, retries) ==
    /\ cpc[t] = "idle"
    /\ Len(connectors) + Cardinality(Constructing) < MaxConnectors
    /\ cpc' = [cpc EXCEPT ![t] = "test"]
    /\ cargs' = [cargs EXCEPT ![t] = retries]
    /\ UNCHANGED <<CONNECTION_POOL, pools, connectors>>
    /\ UNCHANGED notConn

\* line 51: if CONNECTION_POOL is None
GetPoolTest(t) ==
    /\ cpc[t] = "test"
    /\ cpc' = [cpc EXCEPT ![t] = IF CONNECTION_POOL = NoPool
                                  THEN "make" ELSE "return"]
    /\ UNCHANGED <<CONNECTION_POOL, pools, cargs, connectors>>
    /\ UNCHANGED notConn

\* line 52: CONNECTION_POOL = _ConnectionPool(retries, timeout)
GetPoolMake(t) ==
    /\ cpc[t] = "make"
    /\ pools' = Append(pools, [retries |-> cargs[t]])
    /\ CONNECTION_POOL' = Len(pools) + 1
    /\ cpc' = [cpc EXCEPT ![t] = "return"]
    /\ UNCHANGED <<cargs, connectors>>
    /\ UNCHANGED notConn

\* line 53 and line 77: return CONNECTION_POOL; self.conn = the pool returned
GetPoolReturn(t) ==
    /\ cpc[t] = "return"
    /\ connectors' = Append(connectors,
                            [conn |-> CONNECTION_POOL, retries |-> cargs[t]])
    /\ cpc' = [cpc EXCEPT ![t] = "idle"]
    /\ UNCHANGED <<CONNECTION_POOL, pools, cargs>>
    /\ UNCHANGED notConn

ConnectorNext ==
    \/ \E t \in Threads, r \in RetryValues : NewConnector(t, r)
    \/ \E t \in Threads : GetPoolTest(t)
    \/ \E t \in Threads : GetPoolMake(t)
    \/ \E t \in Threads : GetPoolReturn(t)

(***************************************************************************)
(* _CustomScheme.config and load_config (fs.py 419-435), called through    *)
(* _from_scheme by the threads of one process.  The test of conf, the load *)
(* and the lookup are separate steps of a thread: no lock is held over     *)
(* them.  The configuration file can be rewritten at any time.             *)
(***************************************************************************)
\* the schemes looked up: _from_scheme calls config only for a scheme that
\* is not built-in (line 443)
CustomSchemes == {CS, CX, CY}

\* nothing is looked up yet; conf = None (line 420)
CfgInit ==
    /\ configFile \in ConfigFiles
    /\ conf = {}
    /\ conf_loaded = FALSE
    /\ ures = NoUres
    /\ lpc = [t \in Threads |-> "idle"]
    /\ lscheme = [t \in Threads |-> CS]
    /\ nloads = 0
    /\ seen = {}

CfgParked ==
    /\ lpc = [t \in Threads |-> "idle"]
    /\ lscheme = [t \in Threads |-> CS]
    /\ nloads = 0
    /\ seen = {}

\* _from_scheme line 444: config_dict = _CustomScheme.config(scheme)
ConfigCall(t, scheme) ==
    /\ lpc[t] = "idle"
    /\ lpc' = [lpc EXCEPT ![t] = "test"]
    /\ lscheme' = [lscheme EXCEPT ![t] = scheme]
    /\ UNCHANGED <<nloads, seen>>
    /\ UNCHANGED urlVars
    /\ UNCHANGED notCfg

\* line 424: if _CustomScheme.conf is None
ConfigTest(t) ==
    /\ lpc[t] = "test"
    /\ lpc' = [lpc EXCEPT ![t] = IF conf_loaded THEN "get" ELSE "load"]
    /\ UNCHANGED <<lscheme, nloads, seen>>
    /\ UNCHANGED urlVars
    /\ UNCHANGED notCfg

\* load_config, lines 431-435: the file is read and conf is assigned
LoadConfig(t) ==
    /\ lpc[t] = "load"
    /\ conf' = configFile
    /\ conf_loaded' = TRUE
    /\ nloads' = nloads + 1
    /\ lpc' = [lpc EXCEPT ![t] = "get"]
    /\ UNCHANGED <<lscheme, seen>>
    /\ UNCHANGED <<configFile, ures>>
    /\ UNCHANGED notCfg

\* what a lookup gives _from_scheme: whether the section is there, its real
\* scheme and its defaults, the "scheme" key popped from the copy
Resolution(cf, scheme) ==
    LET sec == ConfigOf(cf, scheme) IN
    [scheme |-> scheme,
     found |-> sec.name # NoneValue,
     real |-> IF "scheme" \in Names(sec.dict)
              THEN Lookup(sec.dict, "scheme") ELSE "",
     defaults |-> Pop(sec.dict, "scheme")]

\* lines 427-428 and _from_scheme line 446: the copy of the section is
\* returned and the caller pops "scheme" from the copy
ConfigGet(t) ==
    /\ lpc[t] = "get"
    /\ seen' = seen \cup {Resolution(conf, lscheme[t])}
    /\ lpc' = [lpc EXCEPT ![t] = "idle"]
    /\ UNCHANGED <<lscheme, nloads>>
    /\ UNCHANGED urlVars
    /\ UNCHANGED notCfg

CfgNext ==
    \/ \E t \in Threads, scheme \in CustomSchemes : ConfigCall(t, scheme)
    \/ \E t \in Threads : ConfigTest(t)
    \/ \E t \in Threads : LoadConfig(t)
    \/ \E t \in Threads : ConfigGet(t)
    \/ WriteConfigFile

(***************************************************************************)
(* The specifications.  Each runs one component; the variables of the       *)
(* others keep their initial values.                                       *)
(***************************************************************************)
PoolParked ==
    /\ procs = {1}
    /\ mem = [p \in Pids |-> ConnectionPoolInit]
    /\ tpc = [p \in Pids |-> [t \in Threads |-> "idle"]]
    /\ call = [p \in Pids |-> [t \in Threads |-> NoCall]]
    /\ builds = [p \in Pids |-> 0]
    /\ used = {}
    /\ done = {}
    /\ inherited = [p \in Pids |-> NoConn]
    /\ racing = [p \in Pids |-> FALSE]
    /\ ncalls = 0

CacheParked ==
    /\ curpid = 1
    /\ pool = ConnectionPoolInit
    /\ length = MaxLength
    /\ do_pickle = FALSE
    /\ bearer_token_path = NoPath
    /\ tokenFile = NoFile
    /\ now = 0
    /\ bearer_token = NoToken
    /\ bearer_token_updated = 0
    /\ store = [k \in Keys |-> Absent]
    /\ lastPut = [k \in Keys |-> NothingPut]
    /\ last = NoLast

PoolStart == PoolInit /\ CacheParked /\ FSParked /\ UrlParked /\ ConnParked /\ CfgParked

SpecPool == PoolStart /\ [][PoolNext]_vars

CacheStart == CacheInit /\ PoolParked /\ FSParked /\ UrlParked /\ ConnParked /\ CfgParked

SpecCache == CacheStart /\ [][CacheNext]_vars

FSStart == FSInit /\ PoolParked /\ CacheParked /\ UrlParked /\ ConnParked /\ CfgParked

SpecFS == FSStart /\ [][FSNext]_vars

UrlStart == UrlInit /\ PoolParked /\ CacheParked /\ FSParked /\ ConnParked /\ CfgParked

SpecUrl == UrlStart /\ [][UrlNext]_vars

ConnectorStart ==
    ConnectorInit /\ PoolParked /\ CacheParked /\ FSParked /\ UrlParked
        /\ CfgParked

CfgStart == CfgInit /\ PoolParked /\ CacheParked /\ FSParked /\ ConnParked

SpecConfig == CfgStart /\ [][CfgNext]_vars

SpecConnector == ConnectorStart /\ [][ConnectorNext]_vars

(***************************************************************************)
(* Claims about the connection pool (SpecPool).                            *)
(***************************************************************************)

\* C1: whatever the interleaving of forks, spawns and urlopen calls of racing
\* threads, every request sent went through a handle that the sending
\* process built itself: never a handle built under another process
\* identifier, never a missing handle.
C1_RequestUsesOwnHandle ==
    \A u \in used : u.handle # NoConn /\ u.handle.owner = u.by

\* C1 witness: a forked child whose memory came with its parent's handle has
\* sent a request while two of its threads raced through the rebuild.
C1_ForkedChildSentRequest ==
    \E p \in procs :
        /\ inherited[p] # NoConn
        /\ racing[p]
        /\ \E u \in used : u.by = p

\* C2 as stated: under one process identifier the pooled client is built
\* once by the first call after the fork (or the first call ever) and no
\* later call under that identifier builds again.
C2_BuiltOncePerPid ==
    \A p \in Pids : builds[p] <= 1

\* C2 amended: a call that starts on a pool not yet rebuilt under the
\* current process identifier (after a fork, or never built) builds exactly
\* once and leaves the identifier recorded; a call that starts after a
\* rebuild was recorded builds nothing; and the client is built exactly once
\* per process identifier unless a call started while another thread was
\* between its test and the recording of the identifier.
C2_RebuildOncePerStaleCall ==
    /\ \A d \in done :
         /\ d.fresh => d.built = 0
         /\ ~d.fresh => d.built = 1
         /\ mem[d.by].pid = d.by
         /\ mem[d.by].conn.owner = d.by
    /\ \A p \in Pids : ~racing[p] => builds[p] <= 1
    /\ \A p \in Pids : (\E d \in done : d.by = p) => builds[p] >= 1

\* C2 witness: in a forked child that inherited a built pool, one call
\* rebuilt and a later call reused the client, with no thread racing.
C2_ChildRebuiltThenReused ==
    \E p \in procs :
        /\ inherited[p] # NoConn
        /\ ~racing[p]
        /\ builds[p] = 1
        /\ \E d \in done : d.by = p /\ ~d.fresh /\ d.built = 1
        /\ \E d \in done : d.by = p /\ d.fresh /\ d.built = 0

(***************************************************************************)
(* Claims about the FS contract (SpecFS).                                  *)
(***************************************************************************)

\* C3 as stated: every FS operation runs the fork check first, so after any
\* operation that ended without error the stored process identifier of its
\* receiver, and of the FS it returned, is the current one.
C3_PidCurrentAfterAnyOperation ==
    (fslast.op \in {"op", "subfs"} /\ fslast.outcome = "ok")
        => /\ fss[fslast.fs].pid = fspid
           /\ fslast.new # 0 => fss[fslast.new].pid = fspid

\* C3 amended: an operation that runs the fork check resets and adopts the
\* current process identifier when the stored one differs (or raises what
\* the reset hook raises, changing nothing), and changes nothing when they
\* are equal, so after it ended without error the stored identifier is the
\* current one; subfs runs no fork check: it leaves its receiver as it is and
\* returns a copy that keeps the receiver's stored identifier.
C3_CheckedOperationAdoptsPid ==
    [][/\ (FSIdle /\ fslast'.op = "op")
            => LET f == fslast'.fs IN
                 /\ \A n \in FSIndex \ {f} : fss'[n] = fss[n]
                 /\ IF fss[f].pid = fspid
                    THEN fss'[f] = fss[f] /\ fslast'.outcome = "ok"
                    ELSE \/ /\ fslast'.outcome = "ok"
                            /\ fss'[f] = [fss[f] EXCEPT !.pid = fspid,
                                                        !.resets = @ + 1]
                         \/ /\ fslast'.outcome = "ForkedError"
                            /\ fss[f].unsafe
                            /\ fss'[f] = fss[f]
                 /\ fslast'.outcome = "ok" => fss'[f].pid = fspid
       /\ (FSIdle /\ fslast'.op = "subfs")
            => /\ fss'[fslast'.fs] = fss[fslast'.fs]
               /\ fslast'.new # 0
                     => fss'[fslast'.new].pid = fss[fslast'.fs].pid]_vars

\* C3 witness: in a forked process an operation found the stored identifier
\* of a parent's FS stale, ran the reset hook and adopted the current one.
C3_OperationHealedAfterFork ==
    /\ fslast.op = "op"
    /\ fslast.outcome = "ok"
    /\ fspid > 1
    /\ fss[fslast.fs].pid = fspid
    /\ fss[fslast.fs].resets >= 1

(***************************************************************************)
(* Claims about from_url (SpecUrl).                                        *)
(***************************************************************************)

\* C10: a force_type that is set, is not "zip" and differs from the scheme
\* of the url (an absent scheme counting as "file") makes from_url raise the
\* scheme-mismatch ValueError with no backend constructed, no custom scheme
\* looked up and the configuration not loaded; a force_type that is unset,
\* is "zip" or equals the scheme raises no mismatch.
C10_MismatchRaisedFirst ==
    [][(UrlIdle /\ ures'.op = "from_url")
        => LET sch == IF UrlParse(ures'.url).scheme = <<>>
                      THEN FILE ELSE UrlParse(ures'.url).scheme
               ft == ures'.force_type
           IN IF ft # NoneValue /\ ft # ZIP /\ ft # sch
              THEN /\ ures'.outcome = "ValueError"
                   /\ ures'.why = "mismatch"
                   /\ ures'.backend = NoneValue
                   /\ ~ures'.looked
                   /\ UNCHANGED <<conf, conf_loaded>>
              ELSE ures'.why # "mismatch"]_vars

\* C10 witness: a url without scheme, forced to s3, was refused as a
\* mismatch while the configuration was still not loaded.
C10_SchemelessUrlForcedToS3 ==
    /\ ures.op = "from_url"
    /\ UrlParse(ures.url).scheme = <<>>
    /\ ures.force_type = S3
    /\ ures.why = "mismatch"
    /\ ~conf_loaded
    /\ configFile # {}

(***************************************************************************)
(* Claims about HTTPCache and HTTPConnector (SpecCache).  A handler step   *)
(* is a step from an Idle state to a state whose `last` names the call;    *)
(* nothing else moves until the caller takes the result, so in such a      *)
(* state the other variables are as the handler left them.                 *)
(***************************************************************************)
InRange(i) == 0 <= i /\ i < length

\* C4: a put or get with an index below 0 or at or above the capacity fails
\* with IndexError and sends no request, and it changes neither the stored
\* entries nor the pool (no rebuild) nor the token state (no refresh).
C4_OutOfRangeTouchesNothing ==
    [][(Idle /\ last'.op \in {"put", "get"} /\ (last'.i < 0 \/ last'.i >= length))
        => /\ last'.outcome = "IndexError"
           /\ ~last'.sent
           /\ UNCHANGED <<store, pool, bearer_token, bearer_token_updated>>]_vars

\* C4 witness: an index at or above the capacity was refused at a moment
\* when a request would have rebuilt the pool and re-read a changed token
\* file, with an entry stored.
C4_RefusedWhileRebuildAndRefreshDue ==
    /\ last.op \in {"put", "get"}
    /\ last.i >= length
    /\ last.outcome = "IndexError"
    /\ pool.pid # curpid
    /\ pool.conn # NoConn
    /\ bearer_token_path # NoPath
    /\ now - bearer_token_updated > 1
    /\ tokenFile \notin {bearer_token, NoFile}
    /\ \E k \in Keys : store[k] # Absent

\* C5: when put(i, v) returned true and no other write to index i followed
\* (writes to other indices may have), get(i) raises nothing from decoding
\* and returns v whenever the server answers 200; it returns nothing but v
\* or absence.
C5_RoundTrip ==
    (last.op = "get" /\ InRange(last.i) /\ last.sent /\ lastPut[Key(last.i)].known)
        => /\ last.outcome = "ok"
           /\ last.ret \in {lastPut[Key(last.i)].v, Absent}
           /\ (~last.resp.raised /\ last.resp.status = 200)
                 => last.ret = lastPut[Key(last.i)].v

\* C5 witness: with pickling on, get(i) returned the value put, after a put
\* to another index was stored in between.
C5_ReadBackAfterOtherPut ==
    /\ do_pickle
    /\ last.op = "get"
    /\ InRange(last.i)
    /\ lastPut[Key(last.i)].known
    /\ lastPut[Key(last.i)].after
    /\ last.resp.status = 200
    /\ last.ret = lastPut[Key(last.i)].v
    /\ last.ret # <<>>

\* C6 as stated: for an in-range index put raises nothing, and it returns
\* true exactly when the PUT was answered 201.
C6_PutNeverRaisesInRange ==
    (last.op = "put" /\ InRange(last.i))
        => /\ last.outcome = "ok"
           /\ last.ok <=> (~last.resp.raised /\ last.resp.status = 201)

\* C6 amended: for an in-range index put raises only when the token file
\* cannot be read at a refresh that is due (an OSError, raised before any
\* request is sent); once the request is sent put raises nothing and returns
\* true exactly when the answer is 201, false for any other status and for a
\* RequestError.
C6_PutRaisesOnlyOnTokenRead ==
    (last.op = "put" /\ InRange(last.i))
        => /\ last.outcome \in {"ok", "OSError"}
           /\ last.outcome = "OSError"
                 <=> /\ bearer_token_path # NoPath
                     /\ now - bearer_token_updated > 1
                     /\ tokenFile = NoFile
           /\ last.sent <=> last.outcome = "ok"
           /\ last.ok <=> (last.sent /\ ~last.resp.raised /\ last.resp.status = 201)

\* C6 witness: an in-range put raised the OSError of the token file.
C6_PutRaisedOnTokenFile ==
    /\ last.op = "put"
    /\ InRange(last.i)
    /\ last.outcome = "OSError"

\* C7: once the GET is sent, HTTPConnector.get returns the body exactly when
\* the answer is 200, and absence for 404, for any other status and for a
\* RequestError; in those cases the cache call returns absence and raises
\* nothing, as for a miss.
C7_GetBodyOnlyOn200 ==
    (last.op = "get" /\ last.sent)
        => /\ last.data = IF ~last.resp.raised /\ last.resp.status = 200
                          THEN last.resp.body ELSE Absent
           /\ (last.resp.raised \/ last.resp.status # 200)
                 => last.ret = Absent /\ last.outcome = "ok"

\* C7 witness: a GET of a stored entry failed on the network and the call
\* returned absence.
C7_FailedGetLooksLikeMiss ==
    /\ last.op = "get"
    /\ last.sent
    /\ last.resp.raised
    /\ last.ret = Absent
    /\ StoreAt(Key(last.i)) # Absent

\* C8: with do_pickle set, a get that received a 200 body, empty or not,
\* unpickles it: it returns the object of a well-formed pickle and raises
\* the unpickling error otherwise; a get that received no data returns
\* absence without unpickling.
C8_DecodeWhenDataPresent ==
    (last.op = "get" /\ last.sent /\ do_pickle)
        => IF ~last.resp.raised /\ last.resp.status = 200
           THEN IF ValidPickle(last.resp.body)
                THEN last.outcome = "ok" /\ last.ret = Loads(last.resp.body)
                ELSE last.outcome = "UnpicklingError"
           ELSE last.outcome = "ok" /\ last.ret = Absent

\* C8 witness: an empty 200 body made get raise the unpickling error.
C8_EmptyBodyRaises ==
    /\ do_pickle
    /\ last.op = "get"
    /\ last.resp.status = 200
    /\ last.resp.body = <<>>
    /\ last.outcome = "UnpicklingError"

\* C9: with a token path configured, a request sent more than one second
\* after the previous refresh carries what the token file holds now, and the
\* refresh time becomes the current time; a request sent within one second
\* carries the cached token and leaves token and refresh time as they were,
\* whatever the file holds.
C9_TokenRefreshedAfterOneSecond ==
    [][(Idle /\ last'.sent /\ bearer_token_path # NoPath)
        => IF now - bearer_token_updated > 1
           THEN /\ last'.header = tokenFile
                /\ bearer_token' = tokenFile
                /\ bearer_token_updated' = now
           ELSE /\ last'.header = bearer_token
                /\ UNCHANGED <<bearer_token, bearer_token_updated>>]_vars

\* C9 witness: after an earlier refresh, a request within one second of it
\* carried the cached token although the file holds another one.
C9_CachedTokenWhileFileChanged ==
    /\ last.sent
    /\ bearer_token_path # NoPath
    /\ bearer_token_updated > 0
    /\ now - bearer_token_updated = 1
    /\ tokenFile \in Tokens \ {bearer_token}
    /\ last.header = bearer_token

(***************************************************************************)
(* Claims about from_url and _from_scheme (SpecUrl), continued.            *)
(***************************************************************************)

\* C11: whenever from_url succeeds, the result is archive-wrapped (backend
\* built on the parent directory of the path, the leaf opened with open_zip)
\* if and only if force_type is "zip", or force_type is unset and the path
\* ends with ".zip"; otherwise, and so with any explicit non-archive
\* force_type even on a ".zip" path, the backend is built on the full path.
C11_ArchiveWrappedIffZipOrUnsetSuffix ==
    (ures.op = "from_url" /\ ures.outcome = "ok")
        => LET path == UrlParse(ures.url).path
               ft == ures.force_type
               want == \/ ft = ZIP
                       \/ ft = NoneValue /\ EndsWith(path, DOTZIP)
           IN /\ (ures.zip # NoneValue) <=> want
              /\ want => /\ ures.dirname = PathSplit(path).head
                         /\ ures.zip = PathSplit(path).tail
              /\ ~want => ures.dirname = path

\* C11 witness: a url whose path ends with ".zip", resolved with force_type
\* "s3", gave an s3 backend on the full path and no archive.
C11_ForcedS3OnZipPathNotWrapped ==
    /\ ures.op = "from_url"
    /\ ures.outcome = "ok"
    /\ ures.force_type = S3
    /\ EndsWith(UrlParse(ures.url).path, DOTZIP)
    /\ ures.backend = S3
    /\ ures.zip = NoneValue
    /\ ures.dirname = UrlParse(ures.url).path

\* C12: from_url with create set (true) fails with ValueError whenever the
\* target would be archive-wrapped (force_type "zip", or force_type unset
\* and a ".zip" path), before any backend is constructed, any archive is
\* opened or the configuration is looked up; it is refused for no other
\* target, and a backend constructed for a non-archive target receives the
\* caller's create option as given.
C12_CreateRefusedForArchiveOnly ==
    [][(UrlIdle /\ ures'.op = "from_url")
        => LET path == UrlParse(ures'.url).path
               ft == ures'.force_type
               wrapped == \/ ft = ZIP
                          \/ ft = NoneValue /\ EndsWith(path, DOTZIP)
               create == <<"create", "True">> \in ures'.kw
           IN /\ (wrapped /\ create)
                    => /\ ures'.outcome = "ValueError"
                       /\ ures'.why = "create"
                       /\ ures'.backend = NoneValue
                       /\ ures'.zip = NoneValue
                       /\ ~ures'.looked
                       /\ UNCHANGED <<conf, conf_loaded>>
              /\ ~(wrapped /\ create) => ures'.why # "create"
              /\ (~wrapped /\ ures'.backend # NoneValue)
                    => \A pair \in ures'.kw :
                         pair[1] = "create" => pair \in ures'.opts]_vars

\* C12 witness: a custom-scheme url with a ".zip" path and create set was
\* refused while the configuration was still not loaded.
C12_CreateOnCustomZipRefusedUnloaded ==
    /\ ures.op = "from_url"
    /\ UrlParse(ures.url).scheme = CY
    /\ ures.force_type = NoneValue
    /\ <<"create", "True">> \in ures.kw
    /\ ures.outcome = "ValueError"
    /\ ures.why = "create"
    /\ ~conf_loaded
    /\ \E sec \in configFile : sec.name = CY

\* C13: when a backend is constructed for a scheme that is not built-in, the
\* scheme has a section in the loaded configuration whose "scheme" value is
\* built-in, the backend is the one of that real scheme, and the option map
\* is the caller's options, each with the caller's value, plus every key of
\* the section that the caller did not give and that is not "scheme", with
\* the configured value.  For a built-in scheme the configuration is not
\* consulted and the options are the caller's.
C13_DefaultsMergedUnderCallerOptions ==
    (ures.op = "from_url" /\ ures.backend # NoneValue)
        => LET sch == IF UrlParse(ures.url).scheme = <<>>
                      THEN FILE ELSE UrlParse(ures.url).scheme
           IN IF sch \in {FILE, HDFS, S3}
              THEN /\ ures.backend = sch
                   /\ ures.opts = ures.kw
                   /\ ~ures.looked
              ELSE /\ conf_loaded
                   /\ ures.looked
                   /\ \E sec \in conf :
                        /\ sec.name = sch
                        /\ \E real \in {"file", "hdfs", "s3"} :
                             /\ <<"scheme", real>> \in sec.dict
                             /\ ures.backend = Chars(real)
                        /\ ures.kw \subseteq ures.opts
                        /\ \A pair \in sec.dict :
                             (pair[1] # "scheme" /\ pair[1] \notin Names(ures.kw))
                                 => pair \in ures.opts
                        /\ Names(ures.opts) =
                               Names(ures.kw) \cup (Names(sec.dict) \ {"scheme"})
                        /\ Cardinality(ures.opts) = Cardinality(Names(ures.opts))

\* C13 witness: a custom scheme configured as s3 with a default endpoint
\* was resolved with the caller's own endpoint, which was kept.
C13_CallerEndpointKeptOverDefault ==
    /\ ures.op = "from_url"
    /\ ures.outcome = "ok"
    /\ UrlParse(ures.url).scheme = CS
    /\ ures.backend = S3
    /\ <<"endpoint", "e-call">> \in ures.kw
    /\ \E sec \in conf : sec.name = CS /\ <<"endpoint", "e-conf">> \in sec.dict
    /\ ures.opts = {<<"endpoint", "e-call">>}

\* C14 as stated: resolving a custom-scheme url whose section maps the
\* scheme to s3 and gives a default bucket succeeds with an s3 backend that
\* uses the caller's bucket option when there is one and the configured
\* bucket otherwise.
C14_ConfiguredBucketUsed ==
    (/\ ures.op = "from_url"
     /\ ures.force_type = NoneValue
     /\ ~EndsWith(UrlParse(ures.url).path, DOTZIP)
     /\ \E sec \in conf :
          /\ conf_loaded
          /\ sec.name = UrlParse(ures.url).scheme
          /\ <<"scheme", "s3">> \in sec.dict
          /\ "bucket" \in Names(sec.dict))
        => /\ ures.outcome = "ok"
           /\ ures.backend = S3
           /\ \E sec \in conf :
                /\ sec.name = UrlParse(ures.url).scheme
                /\ ures.bucket =
                       IF "bucket" \in Names(ures.kw)
                       THEN Lookup(ures.kw, "bucket")
                       ELSE Lookup(sec.dict, "bucket")

\* C15: no backend is ever constructed for a scheme other than file, hdfs
\* and s3.  A resolution that reaches the scheme lookup with a scheme that
\* is neither built-in nor a section of the configuration fails (the
\* RuntimeError "scheme is not supported"), and one whose section names a
\* real scheme that is not built-in fails too (the ValueError "Scheme is not
\* supported"), even when the real scheme is itself a section of the
\* configuration: there is one level of indirection only.
C15_OnlyBuiltinBackends ==
    (ures.op = "from_url")
        => LET sch == IF UrlParse(ures.url).scheme = <<>>
                      THEN FILE ELSE UrlParse(ures.url).scheme
               reached == ures.why \notin {"mismatch", "create"}
           IN /\ ures.backend # NoneValue => ures.backend \in {FILE, HDFS, S3}
              /\ (/\ reached
                  /\ sch \notin {FILE, HDFS, S3}
                  /\ \A sec \in conf : sec.name # sch)
                    => /\ ures.outcome = "RuntimeError"
                       /\ ures.backend = NoneValue
              /\ \A sec \in conf :
                    (/\ reached
                     /\ sec.name = sch
                     /\ \E real \in {"cs"} : <<"scheme", real>> \in sec.dict)
                        => /\ ures.outcome = "ValueError"
                           /\ ures.why = "unsupported"
                           /\ ures.backend = NoneValue

\* C15 witness: a custom scheme whose section names another custom scheme,
\* itself configured as s3, was refused.
C15_ChainedCustomSchemeRefused ==
    /\ ures.op = "from_url"
    /\ UrlParse(ures.url).scheme = CX
    /\ \E sec \in conf : sec.name = CX /\ <<"scheme", "cs">> \in sec.dict
    /\ \E sec \in conf : sec.name = CS /\ <<"scheme", "s3">> \in sec.dict
    /\ ures.outcome = "ValueError"
    /\ ures.why = "unsupported"
    /\ ures.backend = NoneValue

\* C19 as stated, for the errors of from_url: the invalid-argument errors
\* (scheme mismatch, create with an archive) and the unsupported-scheme
\* errors (unknown scheme, custom scheme mapped to a scheme that is not
\* built-in) are told apart by the kind of error raised: the kind of the
\* first class is ValueError, so no error of the second class is one.
C19_ErrorKindsSeparateClasses ==
    (ures.op = "from_url" /\ ures.outcome # "ok")
        => /\ ures.why \in {"mismatch", "create"} => ures.outcome = "ValueError"
           /\ ures.why \in {"bug", "unsupported"} => ures.outcome # "ValueError"

(***************************************************************************)
(* Claims about FS.subfs and the working directory (SpecFS).               *)
(***************************************************************************)

\* a path is absolute
IsAbsolute(path) == Len(path) > 0 /\ path[1] = "/"

\* ".." stands in the path as a whole segment: between separators or the
\* ends of the path
HasParentSegment(path) ==
    \E n \in 1 .. Len(path) - 1 :
        /\ path[n] = "." /\ path[n + 1] = "."
        /\ (n = 1 \/ path[n - 1] = "/")
        /\ (n + 1 = Len(path) \/ path[n + 2] = "/")

\* C16: subfs fails (RuntimeError) exactly when its argument is absolute or
\* has a ".." segment anywhere; on that failure no FS is created, no reset
\* hook runs and no FS changes, the receiver's working directory included.
C16_SubfsRefusesEscapingPaths ==
    [][(FSIdle /\ fslast'.op = "subfs")
        => IF IsAbsolute(fslast'.arg) \/ HasParentSegment(fslast'.arg)
           THEN /\ fslast'.outcome = "RuntimeError"
                /\ fslast'.new = 0
                /\ fss' = fss
           ELSE fslast'.outcome # "RuntimeError"]_vars

\* C16 witness: subfs("a/..") was refused on an FS whose working directory
\* was assigned before.
C16_TrailingParentSegmentRefused ==
    /\ fslast.op = "subfs"
    /\ fslast.arg = <<"a", "/", ".", ".">>
    /\ fslast.outcome = "RuntimeError"
    /\ fss[fslast.fs].cwd = <<"b">>

\* C17 as stated: the working directory of every FS is never absolute and
\* never has a ".." segment.
C17_CwdNeverEscapes ==
    \A n \in FSIndex :
        fss[n].live => ~IsAbsolute(fss[n].cwd) /\ ~HasParentSegment(fss[n].cwd)

\* C17 amended: subfs keeps the property: the FS it returns on a receiver
\* whose working directory is relative and free of ".." has a working
\* directory that is relative and free of ".." too; an FS starts with the
\* empty working directory; the cwd setter stores the value it is given,
\* whatever it is.
C17_SubfsKeepsCwdInside ==
    [][/\ (FSIdle /\ fslast'.op = "subfs" /\ fslast'.outcome = "ok")
            => LET f == fslast'.fs
                   n == fslast'.new
               IN (~IsAbsolute(fss[f].cwd) /\ ~HasParentSegment(fss[f].cwd))
                      => /\ ~IsAbsolute(fss'[n].cwd)
                         /\ ~HasParentSegment(fss'[n].cwd)
       /\ (FSIdle /\ fslast'.op = "setcwd")
            => fss'[fslast'.fs].cwd = fslast'.arg]_vars

\* C17 witness: on a receiver in "b", subfs("..a") returned an FS in
\* "b/..a", which has no ".." segment.
C17_DottedNameJoined ==
    /\ fslast.op = "subfs"
    /\ fslast.outcome = "ok"
    /\ fslast.arg = <<".", ".", "a">>
    /\ fss[fslast.fs].cwd = <<"b">>
    /\ fss[fslast.new].cwd = <<"b", "/", ".", ".", "a">>

\* C18: a subfs call that returns gives a new FS whose working directory is
\* the receiver's joined with the argument, on which the reset hook ran
\* once more than on the receiver; the receiver and every other FS are left
\* as they were, working directory and stored process identifier included,
\* and the new FS carries the receiver's stored identifier.  When the
\* receiver was itself made by subfs(a) on a working directory c, the new
\* working directory is the one of subfs(a joined with the argument) on c.
C18_SubfsJoinsAndResetsCopy ==
    [][(FSIdle /\ fslast'.op = "subfs" /\ fslast'.outcome = "ok")
        => LET f == fslast'.fs
               n == fslast'.new
               p == fslast'.arg
           IN /\ n \in FSIndex /\ n # f
              /\ ~fss[n].live /\ fss'[n].live
              /\ fss'[n].cwd = PathJoin(fss[f].cwd, p)
              /\ fss'[n].resets = fss[f].resets + 1
              /\ fss'[n].pid = fss[f].pid
              /\ \A m \in FSIndex : m # n => fss'[m] = fss[m]
              /\ fss[f].rel # <<"None">>
                    => /\ ~IsAbsolute(PathJoin(fss[f].rel, p))
                       /\ ~HasParentSegment(PathJoin(fss[f].rel, p))
                       /\ fss'[n].cwd =
                              PathJoin(fss[f].base, PathJoin(fss[f].rel, p))]_vars

\* C18 witness: in a forked process, an FS made by subfs on a working
\* directory that was assigned before received subfs itself, and the
\* receiver still holds the parent's identifier.
C18_ChainedSubfsAfterFork ==
    /\ fslast.op = "subfs"
    /\ fslast.outcome = "ok"
    /\ fss[fslast.fs].rel # <<"None">>
    /\ fss[fslast.fs].base = <<"b">>
    /\ fss[fslast.fs].pid # fspid
    /\ fss[fslast.new].cwd = PathJoin(<<"b">>, PathJoin(fss[fslast.fs].rel, fslast.arg))

(***************************************************************************)
(* Claims about the pool singleton (SpecConnector).                        *)
(***************************************************************************)

\* C20 as stated: in one process at most one pool is ever created, and all
\* the HTTPConnector objects constructed, in any order, with any retries and
\* from any thread, hold the same pool.
C20_OnePoolPerProcess ==
    /\ Len(pools) <= 1
    /\ \A i, j \in 1 .. Len(connectors) : connectors[i].conn = connectors[j].conn

(***************************************************************************)
(* Claims about the custom-scheme configuration (SpecConfig).              *)
(***************************************************************************)

\* C21 as stated: the configuration file is read at most once in a process,
\* and the lookups of one custom scheme all give the same real scheme and
\* the same defaults.
C21_LoadedOnceAndStable ==
    /\ nloads <= 1
    /\ \A r1, r2 \in seen : r1.scheme = r2.scheme => r1 = r2

(***************************************************************************)
(* Claims about a failing reset hook (SpecFS).                             *)
(***************************************************************************)

\* C22: a fork check whose reset hook raises leaves the FS as it was, its
\* stored process identifier still the parent's.  An FS whose hook raises
\* in a forked process stays forked through every later step, forks
\* included, so each later checked operation on it, and each subfs, raises
\* again; an operation that proceeds has run the reset hook if the FS was
\* forked, and leaves the FS with the current identifier.
C22_FailedResetKeepsFSForked ==
    [][/\ (FSIdle /\ fslast'.op = "op")
            => LET f == fslast'.fs
               IN /\ fslast'.outcome = "ForkedError"
                        => /\ fss' = fss
                           /\ fss[f].pid # fspid
                  /\ (fss[f].unsafe /\ fss[f].pid # fspid)
                        => fslast'.outcome = "ForkedError"
                  /\ fslast'.outcome = "ok"
                        => /\ fss'[f].pid = fspid
                           /\ fss[f].pid # fspid
                                 => fss'[f].resets = fss[f].resets + 1
       /\ (FSIdle /\ fslast'.op = "subfs" /\ fslast'.outcome # "RuntimeError")
            => LET f == fslast'.fs
               IN (fss[f].unsafe /\ fss[f].pid # fspid)
                      => fslast'.outcome = "ForkedError" /\ fss' = fss
       /\ \A n \in FSIndex :
            (fss[n].live /\ fss[n].unsafe /\ fss[n].pid # fspid)
                => /\ fss'[n].live /\ fss'[n].unsafe
                   /\ fss'[n].pid = fss[n].pid
                   /\ fss'[n].pid # fspid']_vars

\* C22 witness: after a second fork, a checked operation failed on an FS
\* that still holds the identifier of the first process and was never reset.
C22_StillFailingAfterSecondFork ==
    /\ fslast.op = "op"
    /\ fslast.outcome = "ForkedError"
    /\ fss[fslast.fs].unsafe
    /\ fss[fslast.fs].pid = 1
    /\ fss[fslast.fs].resets = 0
    /\ fspid > 2

====
